---- MODULE Spec2Model ----
(***************************************************************************)
(* Airavat desktop: the privileged host process (main process and its      *)
(* BackendProcessor), the UI bridge (preload) and the UI orchestrator      *)
(* (renderer script), with the backend as an environment that answers or   *)
(* fails each HTTP request.                                                *)
(*                                                                         *)
(* JavaScript values that may be missing are kept as strings ("true",      *)
(* "false", "undefined", "null"), so that a missing field and a false      *)
(* field stay distinct, as the code's tests distinguish them.              *)
(***************************************************************************)
EXTENDS Integers, Sequences, FiniteSets, TLC

VARIABLES
    \* ---- privileged host process (main process) ----
    hostPc,            \* position of checkBackendStatus / the app lifecycle
    backendProcessor,  \* the module-level BackendProcessor: defined, baseUrl, isInitialized
    probes,            \* health probes made by the running initialize(): <<[url, outcome]>>
    caughtError,       \* message of the error caught by checkBackendStatus ("" when none)
    downloads,         \* names of the files in the user's Downloads directory
    \* ---- UI bridge ----
    ipcEvents,         \* events sent by the host, not yet delivered to the renderer
    calls,             \* ipcRenderer.invoke calls (and their transport calls) in progress
    \* ---- UI orchestrator (renderer) ----
    isElectron,
    selectedFiles,
    isProcessing,
    appReady,
    offlineMode,
    lastResults,
    downloadBtn,       \* artifact path bound to the download button ("none" when absent)
    shownError,        \* text of the last showError ("" when none)
    webCheck,          \* plain page: the health fetch of checkBackendConnection
    lastProbe,         \* outcome of the last connection resolution the UI learnt of
    cycles,            \* processFiles invocations awaiting their result
    webReqs,           \* plain page: submissions posted with fetch, not yet settled
    uiEvent,           \* what the UI did last: processFiles ignored a request, dispatched
                       \* or ended, clearFiles announced 'All files cleared'
    viewModel,         \* the progress shown in the processing modal
    loadingScreen      \* title of the loading screen ("hidden" when the main content shows)

hostVars == <<hostPc, backendProcessor, probes, caughtError, downloads>>
ipcVars == <<ipcEvents, calls>>
uiVars == <<isElectron, selectedFiles, isProcessing, appReady, offlineMode, lastResults,
            downloadBtn, shownError, webCheck, lastProbe, cycles, webReqs, uiEvent,
            viewModel, loadingScreen>>
vars == <<hostPc, backendProcessor, probes, caughtError, downloads, ipcEvents, calls,
          isElectron, selectedFiles, isProcessing, appReady, offlineMode, lastResults,
          downloadBtn, shownError, webCheck, lastProbe, cycles, webReqs, uiEvent,
          viewModel, loadingScreen>>

(***************************************************************************)
(* Bounds of the model.                                                    *)
(***************************************************************************)
\* host operations invoked by renderer code other than processFiles, in progress at once
MaxHostCalls == 1
\* processFiles invocations awaiting their result at once (the code sets no limit)
MaxCycles == 2

(***************************************************************************)
(* Configuration (backend-config.js) and fixed texts.                      *)
(***************************************************************************)
Null == "null"
Undefined == "undefined"
RENDER_URL == "https://airavat-backend-zlgv.onrender.com"
LOCAL_URL == "http://localhost:8000"
HEALTH == "/api/health"

\* faulty variant: the local candidate is probed first
urlsLocalFirst == <<LOCAL_URL, RENDER_URL>>

\* BackendProcessor.initialize: const urls = [RENDER_URL, LOCAL_URL]
urls == <<RENDER_URL, LOCAL_URL>>

NoBackendReachable == "Could not connect to any backend server"
NotInitialized == "Backend processor not initialized"
BackendNotConnected == "Backend not connected. Please restart the app."
BackendNotConnectedShort == "Backend not connected"

\* what the backend does with one HTTP request, as axios reports it
ProbeOutcomes == {"200", "2xx", "error"}
HttpOutcomes == {"ok", "refused", "timeout", "non2xx"}
TransportErrorText(o) ==
    CASE o = "refused" -> "connect ECONNREFUSED"
      [] o = "timeout" -> "timeout exceeded"
      [] o = "non2xx" -> "Request failed with status code 500"
      [] OTHER -> ""

\* a JavaScript object's field, undefined when the object has no such field
Get(obj, f) == IF f \in DOMAIN obj THEN obj[f] ELSE Undefined
Truthy(v) == v \notin {Undefined, Null, "false", ""}

(***************************************************************************)
(* BackendProcessor: constructor, initialize, cleanup.                     *)
(***************************************************************************)
NoProcessor == [defined |-> FALSE, baseUrl |-> Null, isInitialized |-> FALSE]
NewBackendProcessor == [defined |-> TRUE, baseUrl |-> Null, isInitialized |-> FALSE]

Connected == backendProcessor.defined /\ backendProcessor.isInitialized

\* the url initialize() is probing: the one after those already answered
ProbedUrl == urls[Len(probes) + 1]

\* checkBackendStatus: backendProcessor = new BackendProcessor(); initialize() issues
\* its first health probe.
CheckBackendStatus ==
    /\ backendProcessor' = NewBackendProcessor
    /\ probes' = <<>>
    /\ caughtError' = ""
    /\ hostPc' = "probing"

\* mainWindow.once('ready-to-show'): show the window and check the backend
WindowReady ==
    /\ isElectron
    /\ hostPc = "launched"
    /\ CheckBackendStatus
    /\ UNCHANGED <<ipcVars, uiVars, downloads>>

SendAppReady(data) == ipcEvents' = Append(ipcEvents, [channel |-> "app-ready", data |-> data])

\* faulty variant: the failure is retried without asking the user
ShowConnectionDialogSkipped(message) ==
    /\ caughtError' = message
    /\ hostPc' = "retryWait"

\* the catch block of checkBackendStatus: the error dialog is shown
ShowConnectionDialog(message) ==
    /\ caughtError' = message
    /\ hostPc' = "dialog"

\* initialize(): the probe of ProbedUrl settles. A 200 makes that url the base url and
\* returns; any other answer or an error moves on to the next url; after the last url
\* initialize throws and checkBackendStatus shows its dialog.
ProbeSettles(o) ==
    /\ hostPc = "probing"
    /\ probes' = Append(probes, [url |-> ProbedUrl, outcome |-> o])
    /\ IF o = "200"
         THEN /\ backendProcessor' = [backendProcessor EXCEPT !.baseUrl = ProbedUrl,
                                                               !.isInitialized = TRUE]
              /\ hostPc' = "modelInfo"
              /\ UNCHANGED caughtError
         ELSE IF Len(probes) + 1 < Len(urls)
           THEN UNCHANGED <<backendProcessor, hostPc, caughtError>>
           ELSE /\ ShowConnectionDialog(NoBackendReachable)
                /\ UNCHANGED backendProcessor
    /\ UNCHANGED <<ipcVars, uiVars, downloads>>

\* checkBackendStatus: getModelInfo() settles; on success app-ready is sent, on failure
\* the catch block shows the same dialog.
ModelInfoSettles(o) ==
    /\ hostPc = "modelInfo"
    /\ IF o = "ok"
         THEN /\ SendAppReady([modelsAvailable |-> "true", modelInfo |-> "modelInfo"])
              /\ hostPc' = "ready"
              /\ UNCHANGED caughtError
         ELSE /\ ShowConnectionDialog(TransportErrorText(o))
              /\ UNCHANGED ipcEvents
    /\ probes' = <<>>
    /\ UNCHANGED <<backendProcessor, calls, uiVars, downloads>>

\* the user's answer to the dialog: 0 Retry, 1 Continue Offline, 2 Exit
cleanup == [backendProcessor EXCEPT !.isInitialized = FALSE, !.baseUrl = Null]

BeforeQuit == backendProcessor' = IF backendProcessor.defined THEN cleanup ELSE backendProcessor

\* the locals of initialize and of the catch block are gone once the dialog is answered
LeaveDialog == probes' = <<>> /\ caughtError' = ""

\* faulty variant: the retry resolves at once, without the 2 s timer
DialogRetryAtOnce ==
    /\ hostPc = "dialog"
    /\ CheckBackendStatus
    /\ UNCHANGED <<ipcVars, uiVars, downloads>>

DialogRetry ==
    /\ hostPc = "dialog"
    /\ hostPc' = "retryWait"
    /\ LeaveDialog
    /\ UNCHANGED <<backendProcessor, ipcVars, uiVars, downloads>>

\* faulty variant: continuing offline also drops the connection state
DialogContinueOfflineDisconnects ==
    /\ hostPc = "dialog"
    /\ SendAppReady([modelsAvailable |-> "false", offlineMode |-> "true"])
    /\ hostPc' = "offline"
    /\ LeaveDialog
    /\ backendProcessor' = cleanup
    /\ UNCHANGED <<calls, uiVars, downloads>>

DialogContinueOffline ==
    /\ hostPc = "dialog"
    /\ SendAppReady([modelsAvailable |-> "false", offlineMode |-> "true"])
    /\ hostPc' = "offline"
    /\ LeaveDialog
    /\ UNCHANGED <<backendProcessor, calls, uiVars, downloads>>

\* app.quit(): before-quit runs cleanup and the processes end, and with them the
\* invocations in progress and the events not yet delivered
Quit ==
    /\ BeforeQuit
    /\ hostPc' = "quit"
    /\ LeaveDialog
    /\ ipcEvents' = <<>>
    /\ calls' = {}

DialogExit ==
    /\ hostPc = "dialog"
    /\ Quit
    /\ UNCHANGED <<uiVars, downloads>>

\* setTimeout(checkBackendStatus, 2000) fires
RetryTimer ==
    /\ hostPc = "retryWait"
    /\ CheckBackendStatus
    /\ UNCHANGED <<ipcVars, uiVars, downloads>>

\* the user closes the window (window-all-closed -> app.quit -> before-quit)
QuitApp ==
    /\ isElectron
    /\ hostPc # "quit"
    /\ Quit
    /\ UNCHANGED <<uiVars, downloads>>

HostRunning == isElectron /\ hostPc # "quit"

(***************************************************************************)
(* Transport client: the BackendProcessor methods that call the backend.   *)
(* Each runs up to its HTTP request (TransportStart), and finishes when    *)
(* the request settles (EndMethod).                                        *)
(***************************************************************************)
YoloTypes == {"yolo", "yolo-detect", "yolo-only"}
SiameseTypes == {"compare-dataset", "siamese", "siamese-only"}
IndividualTypes == {"individual-elephants", "individual_elephants"}

\* processFile: the single-image route of a processing type
SingleRoute(t) ==
    CASE t \in YoloTypes -> "/api/detect-yolo"
      [] t \in SiameseTypes -> "/api/compare-dataset"
      [] OTHER -> "unknown"

\* faulty variant: the comparison types are sent to the combined route
BatchRouteSiameseAsCombined(t) ==
    CASE t \in YoloTypes -> "/api/batch-yolo"
      [] t \in SiameseTypes \cup {"combined"} -> "/api/batch-combined"
      [] t \in IndividualTypes -> "/api/batch-individual-elephants"
      [] OTHER -> "unknown"

\* processBatch / processBatchZip: the batch route of a processing type
BatchRoute(t) ==
    CASE t \in YoloTypes -> "/api/batch-yolo"
      [] t \in SiameseTypes -> "/api/batch-siamese"
      [] t = "combined" -> "/api/batch-combined"
      [] t \in IndividualTypes -> "/api/batch-individual-elephants"
      [] OTHER -> "unknown"

UnknownType(t) == "Unknown processing type: " \o t

Throw(message) == [kind |-> "throw", error |-> message]
Returned(value) == [kind |-> "return", value |-> value]
\* a number option in hundredths; NoOption when the caller or the form has none
NoOption == -1

Request(this, route, mult, images, zip) ==
    [kind |-> "request", base |-> this.baseUrl, route |-> route, mult |-> mult,
     images |-> images, zip |-> zip, confidence_threshold |-> NoOption]

\* String(options.confidence_threshold || 0.5)
ConfidenceField(a) ==
    IF a.confidence_threshold \in {NoOption, 0} THEN 50 ELSE a.confidence_threshold

\* the request of a batch method: the routes other than the comparison route get the
\* confidence_threshold field
BatchRequest(this, route, mult, images, zip, a) ==
    [Request(this, route, mult, images, zip) EXCEPT
        !.confidence_threshold = IF route = "/api/batch-siamese" THEN NoOption
                                 ELSE ConfidenceField(a)]

\* the paths of a list that exist on disk
Existing(paths, missing) == SelectSeq(paths, LAMBDA p : p \notin missing)

\* options.type || options.processingType || 'yolo'
ProcessingTypeOf(a) == IF Truthy(a.kind) THEN a.kind ELSE "yolo"

processFile(this, a) ==
    IF ~this.isInitialized THEN Throw(NotInitialized)
    ELSE IF a.files = <<>> \/ a.files[1] \in a.missing THEN Throw("Input file not found")
    ELSE IF SingleRoute(ProcessingTypeOf(a)) = "unknown"
      THEN Throw(UnknownType(ProcessingTypeOf(a)))
    ELSE Request(this, SingleRoute(ProcessingTypeOf(a)), 1, 1, FALSE)

processBatch(this, a) ==
    IF ~this.isInitialized THEN Throw(NotInitialized)
    ELSE IF BatchRoute(ProcessingTypeOf(a)) = "unknown"
      THEN Throw(UnknownType(ProcessingTypeOf(a)))
    ELSE BatchRequest(this, BatchRoute(ProcessingTypeOf(a)), 10,
                      Len(Existing(a.files, a.missing)), FALSE, a)

\* faulty variant: the archive is posted with the timeout of an image batch
processBatchZipBatchTimeout(this, a) ==
    IF ~this.isInitialized THEN Throw(NotInitialized)
    ELSE IF ~Truthy(a.zip) \/ a.zip \in a.missing THEN Throw("ZIP file not found")
    ELSE IF BatchRoute(ProcessingTypeOf(a)) = "unknown"
      THEN Throw(UnknownType(ProcessingTypeOf(a)))
    ELSE BatchRequest(this, BatchRoute(ProcessingTypeOf(a)), 10, 0, TRUE, a)

processBatchZip(this, a) ==
    IF ~this.isInitialized THEN Throw(NotInitialized)
    ELSE IF ~Truthy(a.zip) \/ a.zip \in a.missing THEN Throw("ZIP file not found")
    ELSE IF BatchRoute(ProcessingTypeOf(a)) = "unknown"
      THEN Throw(UnknownType(ProcessingTypeOf(a)))
    ELSE BatchRequest(this, BatchRoute(ProcessingTypeOf(a)), 20, 0, TRUE, a)

processIndividualElephants(this, a) ==
    IF ~this.isInitialized THEN Throw(NotInitialized)
    ELSE IF Truthy(a.zip)
      THEN BatchRequest(this, "/api/batch-individual-elephants", 20, 0,
                        a.zip \notin a.missing, a)
    ELSE IF Len(a.files) > 0
      THEN BatchRequest(this, "/api/batch-individual-elephants", 20,
                        Len(Existing(a.files, a.missing)), FALSE, a)
    ELSE Throw("No valid files provided for individual elephant processing")

\* processBatchZipIndividualElephants: processIndividualElephants(null, zipFilePath, ...)
processBatchZipIndividualElephants(this, a) ==
    IF ~this.isInitialized THEN Throw(NotInitialized)
    ELSE processIndividualElephants(this, [a EXCEPT !.files = <<>>])

prepareDownloadPackage(this, a) ==
    IF ~this.isInitialized THEN Throw(NotInitialized)
    ELSE Request(this, "/api/prepare-download-package", 15, 0, FALSE)

prepareIndividualElephantDownloadPackage(this, a) ==
    IF ~this.isInitialized THEN Throw(NotInitialized)
    ELSE prepareDownloadPackage(this, a)

\* downloadFileToDownloads makes its request without a test of isInitialized
downloadFileToDownloads(this, a) ==
    Request(this, "/api/download-prepared-package", 10, 0, FALSE)

downloadBatchResults(this, a) ==
    IF ~this.isInitialized THEN Throw(NotInitialized)
    ELSE Request(this, "/api/download-batch/:filename", 5, 0, FALSE)

getModelInfo(this, a) ==
    IF ~this.isInitialized THEN Throw(NotInitialized)
    ELSE Request(this, HEALTH, 1, 0, FALSE)

\* the capabilities reported when the backend cannot be asked
NoCapabilities == [yolo_detection |-> "false", siamese_comparison |-> "false",
                   individual_identification |-> "false", batch_processing |-> "false",
                   zip_support |-> "false"]

\* getProcessingCapabilities awaits getModelInfo inside its try block: the error of a
\* processor that is not initialized is caught like any other
getProcessingCapabilities(this, a) ==
    IF ~this.isInitialized THEN Returned(NoCapabilities)
    ELSE getModelInfo(this, a)

Methods == {"processFile", "processBatch", "processBatchZip", "processIndividualElephants",
            "processBatchZipIndividualElephants", "prepareDownloadPackage",
            "prepareIndividualElephantDownloadPackage", "downloadFileToDownloads",
            "downloadBatchResults", "getModelInfo"}

TransportStart(method, this, a) ==
    CASE method = "processFile" -> processFile(this, a)
      [] method = "processBatch" -> processBatch(this, a)
      [] method = "processBatchZip" -> processBatchZip(this, a)
      [] method = "processIndividualElephants" -> processIndividualElephants(this, a)
      [] method = "processBatchZipIndividualElephants" ->
             processBatchZipIndividualElephants(this, a)
      [] method = "prepareDownloadPackage" -> prepareDownloadPackage(this, a)
      [] method = "prepareIndividualElephantDownloadPackage" ->
             prepareIndividualElephantDownloadPackage(this, a)
      [] method = "downloadFileToDownloads" -> downloadFileToDownloads(this, a)
      [] method = "downloadBatchResults" -> downloadBatchResults(this, a)
      [] method = "getModelInfo" -> getModelInfo(this, a)
      [] method = "getProcessingCapabilities" -> getProcessingCapabilities(this, a)

\* What a method does when its request failed (o is the failure). The catch blocks of
\* the processing methods, of downloadBatchResults and of getModelInfo log the error
\* and throw it again; prepareDownloadPackage and downloadFileToDownloads return
\* {success: false, error}.
Failure(message) == [success |-> "false", error |-> message]

PackageFailure(o) ==
    IF o = "non2xx" THEN Failure("Backend error: Internal Server Error")
    ELSE Failure("Network error: Unable to connect to backend")

\* faulty variant: every method returns the failure as a value
TransportCatchAll(method, o) == Returned(Failure(TransportErrorText(o)))

TransportCatch(method, o) ==
    CASE method \in {"prepareDownloadPackage", "prepareIndividualElephantDownloadPackage"} ->
             Returned(PackageFailure(o))
      [] method = "downloadFileToDownloads" -> Returned(Failure(TransportErrorText(o)))
      [] method = "getProcessingCapabilities" -> Returned(NoCapabilities)
      [] OTHER -> Throw(TransportErrorText(o))

(***************************************************************************)
(* Host operations (ipcMain.handle) that call the transport client.        *)
(***************************************************************************)
GuardedOps == {"process-file", "process-batch", "process-zip",
               "process-individual-elephants", "process-zip-individual-elephants",
               "prepare-download-package", "prepare-individual-elephant-download"}
InfoOps == {"get-model-info", "get-enhanced-model-info"}
IpcOps == GuardedOps \cup InfoOps \cup
          {"download-file-to-downloads", "get-supported-formats",
           "get-processing-capabilities"}
\* a method of the exported BackendProcessor class called without a host operation
Direct == "direct"

MethodOf(op) ==
    CASE op = "process-file" -> "processFile"
      [] op = "process-batch" -> "processBatch"
      [] op = "process-zip" -> "processBatchZip"
      [] op = "process-individual-elephants" -> "processIndividualElephants"
      [] op = "process-zip-individual-elephants" -> "processBatchZipIndividualElephants"
      [] op = "prepare-download-package" -> "prepareDownloadPackage"
      [] op = "prepare-individual-elephant-download" ->
             "prepareIndividualElephantDownloadPackage"
      [] op = "download-file-to-downloads" -> "downloadFileToDownloads"
      [] OTHER -> "getModelInfo"

NoValue == [none |-> "none"]
NoOutcome == [kind |-> "none", value |-> NoValue, error |-> ""]
Resolved(value) == [kind |-> "resolved", value |-> value, error |-> ""]
Rejected(message) == [kind |-> "rejected", value |-> NoValue, error |-> message]
Outcome(t) == [kind |-> t.kind,
               value |-> IF "value" \in DOMAIN t THEN t.value ELSE NoValue,
               error |-> IF "error" \in DOMAIN t THEN t.error ELSE ""]

Success(data) == [success |-> "true", data |-> data]
DefaultFormats == [formats |-> "jpg,jpeg,png,bmp,gif,tiff,tif"]
\* x || d and x && y
Or(x, d) == IF Truthy(x) THEN x ELSE d
And(x, y) == IF Truthy(x) THEN y ELSE x

\* the data of a health response: a status, and models_loaded with the flags of the
\* two models and, from some backends, a flag of its own for identity grouping; or a
\* status only
ModelsLoaded == {[yolo |-> y, siamese |-> s, individual_elephants |-> i] :
                    y \in {"true", "false"}, s \in {"true", "false"},
                    i \in {"true", Undefined}}
HealthResponses == {[status |-> "healthy"]} \cup
                   {[status |-> "healthy", models_loaded |-> m] : m \in ModelsLoaded}

\* info.models_loaded?.f
Loaded(info, f) ==
    IF "models_loaded" \in DOMAIN info THEN Get(info.models_loaded, f) ELSE Undefined

\* the object getModelInfo returns for the health response baseInfo: the fields it
\* computes, then ...baseInfo, whose status and models_loaded replace the computed ones
ModelInfoOf(baseInfo) ==
    LET hasYolo == Or(Loaded(baseInfo, "yolo"), "false")
        hasSiamese == Or(Loaded(baseInfo, "siamese"), "false")
    IN  [status |-> baseInfo.status,
         models_loaded |->
             IF "models_loaded" \in DOMAIN baseInfo THEN baseInfo.models_loaded
             ELSE [yolo |-> hasYolo, siamese |-> hasSiamese,
                   individual_elephants |-> And(hasYolo, hasSiamese)],
         features |-> [yolo_detection |-> hasYolo, siamese_comparison |-> hasSiamese,
                       individual_identification |-> And(hasYolo, hasSiamese),
                       batch_processing |-> "true", zip_support |-> "true"]]

\* what BackendProcessor.getProcessingCapabilities makes of the model info
ProcessingCapabilities(modelInfo) ==
    [yolo_detection |-> Or(Loaded(modelInfo, "yolo"), "false"),
     siamese_comparison |-> Or(Loaded(modelInfo, "siamese"), "false"),
     individual_identification |-> Or(Loaded(modelInfo, "individual_elephants"), "false"),
     batch_processing |-> "true", zip_support |-> "true"]

\* what the get-processing-capabilities handler makes of the model info
HandlerCapabilities(modelInfo) ==
    [yolo_detection |-> Or(Loaded(modelInfo, "yolo"), "false"),
     siamese_comparison |-> Or(Loaded(modelInfo, "siamese"), "false"),
     individual_identification |->
         Or(And(Loaded(modelInfo, "yolo"), Loaded(modelInfo, "siamese")), "false"),
     batch_processing |-> "true", zip_support |-> "true"]

\* the health response of a backend with both models loaded, and its model info
BothModels == [status |-> "healthy",
               models_loaded |-> [yolo |-> "true", siamese |-> "true",
                                  individual_elephants |-> "true"]]
ModelInfo == ModelInfoOf(BothModels)

TypeErrorText == "Cannot read properties of undefined (reading 'downloadFileToDownloads')"

\* The part of a handler that runs before its transport call: "call" when the call is
\* made, otherwise the value the handler ends with.
HandlerGuard(op) ==
    CASE op \in GuardedOps ->
             IF ~Connected THEN Resolved(Failure(BackendNotConnected)) ELSE NoOutcome
      [] op \in InfoOps ->
             IF ~Connected
               THEN Resolved([success |-> "false", error |-> BackendNotConnectedShort,
                              offline |-> "true"])
               ELSE NoOutcome
      [] op = "get-supported-formats" ->
             IF Connected THEN NoOutcome ELSE Resolved(DefaultFormats)
      [] op = "get-processing-capabilities" ->
             IF ~Connected THEN Resolved(NoCapabilities) ELSE NoOutcome
      [] op = "download-file-to-downloads" ->
             IF ~backendProcessor.defined THEN Resolved(Failure(TypeErrorText))
             ELSE NoOutcome
      [] op = Direct -> NoOutcome

\* The part of a handler that runs after its transport call ended with t (a return or
\* a throw): the value the invocation resolves with, or the rejection.
HandlerEnd(op, t) ==
    CASE op \in {"process-file", "process-batch", "process-zip",
                 "process-individual-elephants", "process-zip-individual-elephants"}
                \cup InfoOps ->
             IF t.kind = "return" THEN Resolved(Success(t.value))
             ELSE Resolved(Failure(t.error))
      [] op \in {"prepare-download-package", "prepare-individual-elephant-download",
                 "download-file-to-downloads"} ->
             IF t.kind = "return" THEN Resolved(t.value) ELSE Resolved(Failure(t.error))
      [] op = "get-supported-formats" ->
             IF t.kind = "return" THEN Resolved(DefaultFormats) ELSE Rejected(t.error)
      [] op = "get-processing-capabilities" ->
             IF t.kind = "return" THEN Resolved(HandlerCapabilities(t.value))
             ELSE Resolved(NoCapabilities)
      [] op = Direct ->
             IF t.kind = "return" THEN Resolved(t.value) ELSE Rejected(t.error)

(***************************************************************************)
(* Invocations in progress.                                                *)
(***************************************************************************)
NoRequest == [issued |-> FALSE, base |-> Null, route |-> "", mult |-> 0, images |-> 0,
              zip |-> FALSE, confidence_threshold |-> NoOption]
Issued(r) == [issued |-> TRUE, base |-> r.base, route |-> r.route, mult |-> r.mult,
              images |-> r.images, zip |-> r.zip,
              confidence_threshold |-> r.confidence_threshold]

NewCall(id, op, method, origin, a) ==
    [id |-> id, op |-> op, method |-> method, origin |-> origin, args |-> a,
     stage |-> "sent", connected |-> "unknown", req |-> NoRequest,
     failed |-> "", tr |-> NoOutcome, result |-> NoOutcome,
     loaded |-> 0, reported |-> <<>>, dest |-> ""]

\* a submission of processFiles carries the id of its cycle; other calls carry 0
CallIds == 1 .. MaxCycles

\* the method of call c runs up to its request: it throws, or the request is issued
StartMethod(c, this) ==
    LET s == TransportStart(c.method, this, c.args) IN
    IF s.kind # "request"
      THEN [c EXCEPT !.stage = "returned", !.tr = Outcome(s),
                     !.result = HandlerEnd(c.op, Outcome(s))]
      ELSE [c EXCEPT !.stage = "http", !.req = Issued(s)]

\* The two package handlers send download-progress events around their call: one when
\* the call is made and one, with progress 100, when it has returned; a call that throws
\* skips the second. The renderer never invokes these operations itself and its state
\* is not touched by them, so the events are kept with the invocation that sent them
\* (reported holds their progress values).
PackageOps == {"prepare-download-package", "prepare-individual-elephant-download"}
ProgressBeforeCall(op) ==
    CASE op = "prepare-download-package" -> <<10>>
      [] op = "prepare-individual-elephant-download" -> <<20>>
      [] OTHER -> <<>>
ProgressAfterCall(op, t) ==
    IF op \in PackageOps /\ t.kind = "return" THEN <<100>> ELSE <<>>

\* the method of call c ends with t, and with it the handler that called it
EndMethod(c, t) ==
    [c EXCEPT !.stage = "returned", !.tr = Outcome(t), !.result = HandlerEnd(c.op, Outcome(t)),
              !.reported = @ \o ProgressAfterCall(c.op, t)]

\* the host receives the invocation: the handler runs up to its first request
HandlerStart(c) ==
    /\ HostRunning
    /\ c \in calls
    /\ c.stage = "sent"
    /\ LET g == HandlerGuard(c.op)
           d == [c EXCEPT !.connected = IF Connected THEN "yes" ELSE "no"]
       IN  calls' = (calls \ {c}) \cup
                    {IF g.kind = "none"
                       THEN StartMethod([d EXCEPT !.reported = ProgressBeforeCall(c.op)],
                                        backendProcessor)
                     ELSE [d EXCEPT !.stage = "returned", !.result = g]}
    /\ UNCHANGED <<hostVars, ipcEvents, uiVars>>

\* values a successful request returns, by method
Envelopes == {[zip_file_path |-> "out1.zip", failed_images |-> "0"],
              [zip_file_path |-> "out2.zip", failed_images |-> "1"],
              [zip_file_path |-> Undefined, failed_images |-> "0"]}
PackageResult == [success |-> "true", zip_path |-> "pkg.zip"]
Downloaded == [success |-> "true", path |-> "Downloads/result.zip"]

\* a file name as path.basename(filename, ext) and path.extname(filename); a call made
\* without a file name passes undefined
NoFilename == [name |-> Undefined, ext |-> ""]
ResultZip == [name |-> "result", ext |-> ".zip"]

\* `${name}_${counter}${ext}`, and the requested name itself for counter 0
Candidate(filename, counter) ==
    IF counter = 0 THEN filename.name \o filename.ext
    ELSE filename.name \o "_" \o ToString(counter) \o filename.ext

\* faulty variant: the first numbered name is taken without testing it
FinalCounterUntested(filename, counter, files) ==
    IF Candidate(filename, counter) \in files THEN counter + 1 ELSE counter

\* the while loop of downloadFileToDownloads: the value of counter - 1 when it ends,
\* i.e. the number of the name it ends with
RECURSIVE FinalCounter(_, _, _)
FinalCounter(filename, counter, files) ==
    IF Candidate(filename, counter) \in files
      THEN FinalCounter(filename, counter + 1, files)
      ELSE counter

\* finalPath when the loop ends, relative to the Downloads directory
FinalPath(filename, files) == Candidate(filename, FinalCounter(filename, 0, files))

\* the names a download of filename can end with while the loop makes at most
\* MaxCopies rounds
MaxCopies == 2
Candidates(filename) == {Candidate(filename, n) : n \in 0 .. MaxCopies}

\* path.join(downloadsPath, filename) with filename undefined
PathTypeErrorText == "The \"path\" argument must be of type string. Received undefined"

\* resolve({success: true, path: finalPath, filename: path.basename(finalPath)})
DownloadedTo(finalPath) ==
    [success |-> "true", path |-> "Downloads/" \o finalPath, filename |-> finalPath]

StreamingMethods == {"downloadFileToDownloads", "downloadBatchResults"}

SuccessValues(method) ==
    CASE method \in {"prepareDownloadPackage", "prepareIndividualElephantDownloadPackage"} ->
             {PackageResult}
      [] method = "getModelInfo" -> {ModelInfo}
      [] method = "getProcessingCapabilities" -> {ProcessingCapabilities(ModelInfo)}
      [] method \in StreamingMethods -> {Downloaded}
      [] OTHER -> Envelopes

\* the request of call c settles with outcome o
RequestSettles(c, o) ==
    /\ HostRunning
    /\ c \in calls
    /\ c.stage = "http"
    /\ IF o = "ok"
         THEN IF c.method = "downloadFileToDownloads"
                THEN IF c.args.filename = NoFilename
                       THEN calls' = (calls \ {c}) \cup
                                     {EndMethod(c, Returned(Failure(PathTypeErrorText)))}
                       ELSE /\ FinalCounter(c.args.filename, 0, downloads) <= MaxCopies
                            /\ calls' = (calls \ {c}) \cup
                                 {[c EXCEPT !.stage = "open",
                                            !.dest = FinalPath(c.args.filename, downloads)]}
                ELSE IF c.method \in StreamingMethods
                  THEN calls' = (calls \ {c}) \cup {[c EXCEPT !.stage = "stream"]}
                  ELSE \E v \in SuccessValues(c.method) :
                          calls' = (calls \ {c}) \cup {EndMethod(c, Returned(v))}
         ELSE calls' = (calls \ {c}) \cup
                       {EndMethod([c EXCEPT !.failed = o], TransportCatch(c.method, o))}
    /\ UNCHANGED <<hostVars, ipcEvents, uiVars>>

\* the health request of getModelInfo is answered with the data baseInfo: the method
\* that made it returns what it computes from the answer
HealthSettles(c, baseInfo) ==
    /\ HostRunning
    /\ c \in calls
    /\ c.stage = "http"
    /\ c.method \in {"getModelInfo", "getProcessingCapabilities"}
    /\ calls' = (calls \ {c}) \cup
                {EndMethod(c, Returned(IF c.method = "getProcessingCapabilities"
                                         THEN ProcessingCapabilities(ModelInfoOf(baseInfo))
                                         ELSE ModelInfoOf(baseInfo)))}
    /\ UNCHANGED <<hostVars, ipcEvents, uiVars>>

\* fs.createWriteStream(finalPath) opens the file of a download: it exists from now on
WriterOpens(c) ==
    /\ HostRunning
    /\ c \in calls
    /\ c.stage = "open"
    /\ downloads' = downloads \cup {c.dest}
    /\ calls' = (calls \ {c}) \cup {[c EXCEPT !.stage = "stream"]}
    /\ UNCHANGED <<hostPc, backendProcessor, probes, caughtError, ipcEvents, uiVars>>

\* the response stream of a download ends: the writer finishes, or the writer or the
\* response stream fails and the promise the method returned rejects
StreamSettles(c, o) ==
    /\ HostRunning
    /\ c \in calls
    /\ c.stage = "stream"
    /\ calls' = (calls \ {c}) \cup
                {IF o = "finish"
                   THEN EndMethod(c, Returned(IF c.method = "downloadFileToDownloads"
                                                THEN DownloadedTo(c.dest) ELSE Downloaded))
                 ELSE EndMethod([c EXCEPT !.failed = o], Throw("stream error"))}
    /\ UNCHANGED <<hostVars, ipcEvents, uiVars>>

StreamOutcomes == {"finish", "writer error", "response error"}

(***************************************************************************)
(* Upload progress: axios calls onUploadProgress with the bytes sent so    *)
(* far and the length of the multipart body, the method computes a percent *)
(* and the handler forwards it to the renderer as a batch-progress event.  *)
(***************************************************************************)
\* length of the request body, in chunks
UploadSize == 3

\* Math.round(x / y) for x >= 0, y > 0
Round(x, y) == (2 * x + y) \div (2 * y)

\* faulty variant: the percent of the bytes still to send
UploadPercentRemaining(loaded, total) == Round((total - loaded) * 100, total)

\* Math.round((progressEvent.loaded * 100) / progressEvent.total)
UploadPercent(loaded, total) == Round(loaded * 100, total)

\* the methods that pass onUploadProgress to axios
UploadMethods == {"processBatch", "processBatchZip", "processIndividualElephants",
                  "processBatchZipIndividualElephants"}

\* x || d for a number and for a string
NumOr(x, d) == IF x = 0 THEN d ELSE x
StrOr(x, d) == IF x = "" THEN d ELSE x

\* the object onUploadProgress passes to progressCallback
UploadStage(method) ==
    CASE method = "processBatch" -> "Uploading files"
      [] method = "processBatchZip" -> "Uploading ZIP file"
      [] OTHER -> "Processing individual elephants"
UploadFileLabel(method) ==
    CASE method = "processBatch" -> "Uploading..."
      [] method = "processBatchZip" -> "Processing ZIP..."
      [] OTHER -> "Identifying individuals..."
onUploadProgress(method, loaded, total) ==
    [stage |-> UploadStage(method), progress |-> UploadPercent(loaded, total),
     loaded |-> loaded, total |-> total, current |-> 0,
     currentFile |-> UploadFileLabel(method)]

\* the progress callback of a handler: the object it sends as batch-progress
BatchProgress(op, progress, a) ==
    CASE op = "process-batch" ->
             [progress |-> NumOr(progress.progress, 0), current |-> NumOr(progress.current, 0),
              total |-> NumOr(progress.total, Len(a.files)),
              currentFile |-> StrOr(progress.currentFile, "Processing..."),
              stage |-> StrOr(progress.stage, "Processing files")]
      [] op = "process-individual-elephants" ->
             [progress |-> NumOr(progress.progress, 0), current |-> NumOr(progress.current, 0),
              total |-> NumOr(progress.total, 0),
              currentFile |-> StrOr(progress.currentFile, "Processing individual elephants..."),
              stage |-> StrOr(progress.stage, "Identifying individual elephants")]
      [] op = "process-zip-individual-elephants" ->
             [progress EXCEPT !.stage = StrOr(progress.stage,
                                              "Identifying individual elephants in ZIP")]
      [] OTHER -> progress

\* axios reports that the first `loaded` chunks of the body of call c are sent; a method
\* called without a progress callback reports nothing
UploadProgress(c, loaded) ==
    /\ HostRunning
    /\ c \in calls
    /\ c.stage = "http"
    /\ c.method \in UploadMethods
    /\ loaded \in (c.loaded + 1) .. UploadSize
    /\ IF c.op = Direct
         THEN /\ calls' = (calls \ {c}) \cup {[c EXCEPT !.loaded = loaded]}
              /\ UNCHANGED ipcEvents
         ELSE LET sent == BatchProgress(c.op, onUploadProgress(c.method, loaded, UploadSize),
                                        c.args)
              IN  /\ calls' = (calls \ {c}) \cup
                               {[c EXCEPT !.loaded = loaded,
                                          !.reported = Append(@, sent.progress)]}
                  /\ ipcEvents' = Append(ipcEvents, [channel |-> "batch-progress",
                                                     data |-> sent])
    /\ UNCHANGED <<hostVars, uiVars>>

(***************************************************************************)
(* Invocations made by renderer code through the bridge, and direct calls  *)
(* of the transport client's methods.                                      *)
(***************************************************************************)
NoArgs == [files |-> <<>>, zip |-> Null, kind |-> Undefined, missing |-> {},
           filename |-> NoFilename, confidence_threshold |-> NoOption, zipPath |-> Null]

\* arguments of the host operations: an image or an archive that is present with a
\* known or an unknown processing type, or that is missing
OpArgs(op) ==
    CASE op \in {"process-file", "process-batch"} ->
             {[NoArgs EXCEPT !.files = <<"a.jpg">>, !.kind = "yolo"],
              [NoArgs EXCEPT !.files = <<"a.jpg">>, !.kind = "bogus"],
              [NoArgs EXCEPT !.files = <<"a.jpg">>, !.kind = "yolo", !.missing = {"a.jpg"}]}
      [] op \in {"process-zip", "process-zip-individual-elephants"} ->
             {[NoArgs EXCEPT !.zip = "r.zip", !.kind = "yolo"],
              [NoArgs EXCEPT !.zip = "r.zip", !.kind = "bogus"],
              [NoArgs EXCEPT !.zip = "r.zip", !.kind = "yolo", !.missing = {"r.zip"}]}
      [] op = "process-individual-elephants" ->
             {[NoArgs EXCEPT !.files = f, !.zip = z] :
                 f \in {<<>>, <<"a.jpg">>}, z \in {Null, "r.zip"}}
      [] OTHER -> {NoArgs}

\* a download invoked for result.zip
DownloadArgs == [NoArgs EXCEPT !.filename = ResultZip]

\* downloads that can be in progress together, and the packages of the backend they
\* fetch
MaxDownloads == 2
Packages == {"pkg1.zip", "pkg2.zip"}

\* window.electronAPI.downloadFileToDownloads(zipPath, filename), the file name being
\* result.zip: any number of these invocations can be under way
InvokeDownload(zipPath) ==
    /\ HostRunning
    /\ Cardinality({c \in calls : c.op = "download-file-to-downloads"}) < MaxDownloads
    /\ calls' = calls \cup {NewCall(0, "download-file-to-downloads", "downloadFileToDownloads",
                                    "renderer", [DownloadArgs EXCEPT !.zipPath = zipPath])}
    /\ UNCHANGED <<hostVars, ipcEvents, uiVars>>

\* window.electronAPI / ipcRenderer.invoke(op, ...)
Invoke(op, a) ==
    /\ HostRunning
    /\ Cardinality({c \in calls : c.origin = "renderer"}) < MaxHostCalls
    /\ calls' = calls \cup {NewCall(0, op, MethodOf(op), "renderer", a)}
    /\ UNCHANGED <<hostVars, ipcEvents, uiVars>>

\* arguments of the transport client's methods
MethodArgs(method) ==
    CASE method \in {"processFile", "processBatch"} -> OpArgs("process-file")
      [] method \in {"processBatchZip", "processBatchZipIndividualElephants"} ->
             OpArgs("process-zip")
      [] method = "processIndividualElephants" -> OpArgs("process-individual-elephants")
      [] OTHER -> {NoArgs}

\* module.exports = BackendProcessor: a method of the host's instance is called by code
\* other than a handler
CallMethod(method, a) ==
    /\ HostRunning
    /\ backendProcessor.defined
    /\ Cardinality({c \in calls : c.origin = "direct"}) < MaxHostCalls
    /\ calls' = calls \cup {NewCall(0, Direct, method, "direct", a)}
    /\ UNCHANGED <<hostVars, ipcEvents, uiVars>>

\* the invocation's promise settles in the renderer, whose code drops the value
ReplyDropped(c) ==
    /\ c \in calls
    /\ c.stage = "returned"
    /\ c.origin # "processFiles"
    /\ calls' = calls \ {c}
    /\ UNCHANGED <<hostVars, ipcEvents, uiVars>>

(***************************************************************************)
(* UI bridge events (preload.js) and the UI orchestrator (script.js).      *)
(***************************************************************************)
NullResults == [none |-> "null"]

UiAlive == ~isElectron \/ hostPc # "quit"

\* the first argument ipcRenderer.on passes to a listener: the event, which has none
\* of the fields of the data sent
IpcRendererEvent == [sender |-> "ipcRenderer"]

\* onAppReady: (callback) => ipcRenderer.on('app-ready', callback): the listener is
\* called with (event, data)
ListenerArgs(msg) == <<IpcRendererEvent, msg.data>>

\* handleAppReady(data): the three assignments
AppReadyOf(data) == Get(data, "modelsAvailable") # "false"
OfflineModeOf(data) == Truthy(Get(data, "offlineMode"))

\* the loading screen: showLoadingScreen(title, message) shows it over the main content,
\* hideLoadingScreen shows the main content again
Hidden == "hidden"
InitializingElectron == "Initializing Electron App"
ConnectingToBackend == "Connecting to Backend"

\* what the host announced with an app-ready event
Announced(data) == IF Get(data, "modelsAvailable") = "true" THEN "ok" ELSE "failed"

\* the renderer receives the app-ready event: handleAppReady runs with the listener's
\* first argument
DeliverAppReady ==
    /\ UiAlive
    /\ ipcEvents # <<>>
    /\ Head(ipcEvents).channel = "app-ready"
    /\ LET data == ListenerArgs(Head(ipcEvents))[1] IN
         /\ appReady' = AppReadyOf(data)
         /\ offlineMode' = OfflineModeOf(data)
    /\ lastProbe' = Announced(Head(ipcEvents).data)
    /\ loadingScreen' = Hidden
    /\ ipcEvents' = Tail(ipcEvents)
    /\ UNCHANGED <<hostVars, calls, isElectron, viewModel, selectedFiles, isProcessing, lastResults,
                   downloadBtn, shownError, webCheck, cycles, webReqs, uiEvent>>

\* updateProcessingProgress(progress): the indicators it writes (not the total count)
updateProcessingProgress(progress) ==
    [viewModel EXCEPT !.progress = NumOr(progress.progress, 0),
                      !.stage = StrOr(progress.stage, "Processing..."),
                      !.currentFile = StrOr(progress.currentFile, "Processing..."),
                      !.processedCount = NumOr(progress.processedCount, 0)]

\* progress && progress.f || d, for a number and for a string
NumField(obj, f, d) == IF f \in DOMAIN obj THEN NumOr(obj[f], d) ELSE d
StrField(obj, f, d) == IF f \in DOMAIN obj THEN StrOr(obj[f], d) ELSE d

handleBatchProgress(progress) ==
    updateProcessingProgress(
        [progress |-> NumField(progress, "progress", 0),
         currentFile |-> StrField(progress, "currentFile", "Processing..."),
         processedCount |-> NumField(progress, "current", 0),
         totalCount |-> NumField(progress, "total", Len(selectedFiles)),
         stage |-> StrField(progress, "stage", "Processing files")])

\* the renderer receives a batch-progress event: handleBatchProgress runs with the
\* listener's first argument
DeliverBatchProgress ==
    /\ UiAlive
    /\ ipcEvents # <<>>
    /\ Head(ipcEvents).channel = "batch-progress"
    /\ viewModel' = handleBatchProgress(ListenerArgs(Head(ipcEvents))[1])
    /\ ipcEvents' = Tail(ipcEvents)
    /\ UNCHANGED <<hostVars, calls, isElectron, loadingScreen, selectedFiles, isProcessing,
                   appReady, offlineMode, lastResults, downloadBtn, shownError, webCheck,
                   lastProbe, cycles, webReqs, uiEvent>>

\* the messages of the host reach the renderer in the order they were sent: the reply
\* of an invocation comes after the progress events its handler sent
ProgressDelivered == \A i \in DOMAIN ipcEvents : ipcEvents[i].channel # "batch-progress"

\* plain page: the health fetch of checkBackendConnection settles, or the 10 s timer
\* of its Promise.race fires first
WebCheckOutcomes == {"ok", "not ok", "error", "timeout"}
ConnectionFailedText(o) ==
    "Backend connection failed: " \o
    (CASE o = "not ok" -> "Backend returned 500"
       [] o = "timeout" -> "Connection timeout after 10 seconds"
       [] OTHER -> "Failed to fetch")

WebCheckSettles(o) ==
    /\ ~isElectron
    /\ webCheck = "pending"
    /\ webCheck' = "idle"
    /\ IF o = "ok"
         THEN /\ appReady' = TRUE
              /\ offlineMode' = FALSE
              /\ lastProbe' = "ok"
              /\ UNCHANGED shownError
         ELSE /\ appReady' = FALSE
              /\ offlineMode' = TRUE
              /\ lastProbe' = "failed"
              /\ shownError' = ConnectionFailedText(o)
    /\ loadingScreen' = Hidden
    /\ UNCHANGED <<hostVars, ipcVars, isElectron, viewModel, selectedFiles, isProcessing, lastResults,
                   downloadBtn, cycles, webReqs, uiEvent>>

\* faulty variant: the fetch is started in hosted mode too
checkBackendConnectionAlways ==
    /\ webCheck' = "pending"
    /\ loadingScreen' = ConnectingToBackend

\* the part of checkBackendConnection that runs at once: hosted, the loading screen of
\* the startup is shown and nothing else happens; on a plain page the loading screen is
\* shown and the health fetch starts
checkBackendConnection ==
    IF isElectron
      THEN /\ loadingScreen' = InitializingElectron
           /\ UNCHANGED webCheck
      ELSE /\ webCheck' = "pending"
           /\ loadingScreen' = ConnectingToBackend

\* the 30 s interval, installed while isElectron still has its initial value false, so
\* in both modes: it finds the app not ready and not processing and calls
\* checkBackendConnection (on a plain page the previous fetch has settled: 10 s < 30 s)
ReconnectTimer ==
    /\ UiAlive
    /\ ~appReady /\ ~isProcessing
    /\ webCheck = "idle"
    /\ checkBackendConnection
    /\ UNCHANGED <<hostVars, ipcVars, isElectron, viewModel, selectedFiles, isProcessing,
                   appReady, offlineMode, lastResults, downloadBtn, shownError, lastProbe,
                   cycles, webReqs, uiEvent>>

\* ---- the pending-file set ----
IsZipName(name) == name = "r.zip"

\* the entry addFiles pushes for a path; a file object is bound only on a plain page
FileEntry(path) == [name |-> path, type |-> IF IsZipName(path) THEN "zip" ELSE "image",
                    path |-> path, fileObject |-> ~isElectron]

Names(sel) == {sel[i].name : i \in 1 .. Len(sel)}

\* faulty variant: a path is compared with the entries present before the call only
AddFilesToUnchecked(sel, paths) ==
    sel \o SelectSeq([i \in 1 .. Len(paths) |-> FileEntry(paths[i])],
                     LAMBDA f : f.name \notin Names(sel))

\* addFiles: each path not yet present by name is pushed, in order
RECURSIVE AddFilesTo(_, _)
AddFilesTo(sel, paths) ==
    IF paths = <<>> THEN sel
    ELSE AddFilesTo(IF Head(paths) \in Names(sel) THEN sel
                    ELSE Append(sel, FileEntry(Head(paths))),
                    Tail(paths))

\* selectFiles, selectZip and handleDrop: addFiles when the app is ready, an error
\* otherwise
NotConnectedText == "Backend not connected. Please refresh the page."

AddFiles(paths) ==
    /\ UiAlive
    /\ IF appReady
         THEN /\ selectedFiles' = AddFilesTo(selectedFiles, paths)
              /\ UNCHANGED shownError
         ELSE /\ shownError' = NotConnectedText
              /\ UNCHANGED selectedFiles
    /\ UNCHANGED <<hostVars, ipcVars, isElectron, viewModel, loadingScreen, isProcessing, appReady, offlineMode,
                   lastResults, downloadBtn, webCheck, lastProbe, cycles,
                   webReqs, uiEvent>>

\* selectedFiles.splice(index, 1), for a 0-based index
Splice(sel, index) == SubSeq(sel, 1, index) \o SubSeq(sel, index + 2, Len(sel))

RemoveFile(index) ==
    /\ UiAlive
    /\ IF index >= 0 /\ index < Len(selectedFiles)
         THEN selectedFiles' = Splice(selectedFiles, index)
         ELSE UNCHANGED selectedFiles
    /\ UNCHANGED <<hostVars, ipcVars, isElectron, viewModel, loadingScreen, isProcessing, appReady, offlineMode,
                   lastResults, downloadBtn, shownError, webCheck, lastProbe, cycles,
                   webReqs, uiEvent>>

\* faulty variant: the results are cleared together with the files
ClearFilesAndResults ==
    /\ UiAlive
    /\ selectedFiles' = <<>>
    /\ uiEvent' = "clearFiles"
    /\ lastResults' = NullResults
    /\ downloadBtn' = "none"
    /\ UNCHANGED <<hostVars, ipcVars, isElectron, viewModel, loadingScreen, isProcessing,
                   appReady, offlineMode, shownError, webCheck, lastProbe, cycles, webReqs>>

ClearFiles ==
    /\ UiAlive
    /\ selectedFiles' = <<>>
    /\ uiEvent' = "clearFiles"
    /\ UNCHANGED <<hostVars, ipcVars, isElectron, viewModel, loadingScreen, isProcessing,
                   appReady, offlineMode, lastResults, downloadBtn, shownError, webCheck,
                   lastProbe, cycles, webReqs>>

\* faulty variant: clearing the results also gives up the submission in flight
ClearResultsAbortsSubmission ==
    /\ UiAlive
    /\ lastResults' = NullResults
    /\ downloadBtn' = "none"
    /\ isProcessing' = FALSE
    /\ cycles' = {}
    /\ calls' = {c \in calls : c.origin # "processFiles"}
    /\ webReqs' = {}
    /\ UNCHANGED <<hostVars, ipcEvents, isElectron, viewModel, loadingScreen, selectedFiles,
                   appReady, offlineMode, shownError, webCheck, lastProbe, uiEvent>>

ClearResults ==
    /\ UiAlive
    /\ lastResults' = NullResults
    /\ downloadBtn' = "none"
    /\ UNCHANGED <<hostVars, ipcVars, isElectron, viewModel, loadingScreen, selectedFiles, isProcessing, appReady,
                   offlineMode, shownError, webCheck, lastProbe, cycles, webReqs, uiEvent>>

\* ---- processing ----
\* faulty variants of the guard of processFiles: without the test of the pending
\* files, and without the test of isProcessing
CanProcessWithoutFiles == ~isProcessing /\ appReady /\ ~offlineMode
CanProcessWhileProcessing == Len(selectedFiles) > 0 /\ appReady /\ ~offlineMode

\* processFiles returns at once unless this holds
CanProcess == Len(selectedFiles) > 0 /\ ~isProcessing /\ appReady /\ ~offlineMode

ZipFiles(sel) == SelectSeq(sel, LAMBDA f : f.type = "zip")
ImageFiles(sel) == SelectSeq(sel, LAMBDA f : f.type = "image")
Paths(sel) == [i \in 1 .. Len(sel) |-> sel[i].path]

\* faulty variant: the images are sent when there are some, the archive otherwise
ElectronDispatchImagesFirst(id, kind, missing) ==
    IF Len(ImageFiles(selectedFiles)) > 0
      THEN NewCall(id, "process-batch", "processBatch", "processFiles",
                   [NoArgs EXCEPT !.files = Paths(ImageFiles(selectedFiles)),
                                  !.kind = kind, !.missing = missing])
      ELSE NewCall(id, "process-zip", "processBatchZip", "processFiles",
                   [NoArgs EXCEPT !.zip = ZipFiles(selectedFiles)[1].path,
                                  !.kind = kind, !.missing = missing])

\* processWithElectron: the archive if there is one, otherwise the images
ElectronDispatch(id, kind, missing) ==
    IF Len(ZipFiles(selectedFiles)) > 0
      THEN NewCall(id, "process-zip", "processBatchZip", "processFiles",
                   [NoArgs EXCEPT !.zip = ZipFiles(selectedFiles)[1].path,
                                  !.kind = kind, !.missing = missing])
      ELSE NewCall(id, "process-batch", "processBatch", "processFiles",
                   [NoArgs EXCEPT !.files = Paths(ImageFiles(selectedFiles)),
                                  !.kind = kind, !.missing = missing])

\* processWithWebAPI: the route of the kind, and the archive if there is one, otherwise
\* the images that have a file object
WebRoute(kind) ==
    CASE kind = "yolo" -> "/api/batch-yolo"
      [] kind = "siamese" -> "/api/batch-siamese"
      [] kind = "combined" -> "/api/batch-combined"
      [] kind = "individual_elephants" -> "/api/batch-individual-elephants"
      [] OTHER -> "unknown"

WebDispatch(id, kind) ==
    IF WebRoute(kind) = "unknown"
      THEN [id |-> id, kind |-> kind, stage |-> "returned", route |-> "", zip |-> FALSE,
            images |-> 0, result |-> Rejected(UnknownType(kind))]
      ELSE [id |-> id, kind |-> kind, stage |-> "http", route |-> WebRoute(kind),
            zip |-> Len(ZipFiles(selectedFiles)) > 0,
            images |-> IF Len(ZipFiles(selectedFiles)) > 0 THEN 0
                       ELSE Len(SelectSeq(ImageFiles(selectedFiles),
                                          LAMBDA f : f.fileObject)),
            result |-> NoOutcome]

\* the progress view of the processing modal: bar and percent text, stage text, current
\* file text and the two counters; NoProgress is the modal before its first use
NoProgress == [progress |-> 0, stage |-> "", currentFile |-> "", processedCount |-> 0,
               totalCount |-> 0]

\* showProcessingModal resets the indicators
showProcessingModal ==
    [progress |-> 0, stage |-> "Starting...", currentFile |-> "Preparing files...",
     processedCount |-> 0, totalCount |-> Len(selectedFiles)]

CycleId == CHOOSE i \in CallIds :
               (\A c \in calls : c.id # i) /\ (\A w \in webReqs : w.id # i)

\* processFiles, up to its await, with the options read from the sliders (in
\* hundredths): the request is ignored, or isProcessing is set and the
\* submission is sent through the bridge (hosted) or posted with fetch (plain page)
ProcessFilesWith(kind, options, missing) ==
    /\ UiAlive
    /\ IF ~CanProcess
         THEN /\ uiEvent' = "processFiles ignored"
              /\ UNCHANGED <<isProcessing, calls, webReqs, cycles, viewModel>>
         ELSE /\ Cardinality(cycles) < MaxCycles
              /\ isProcessing' = TRUE
              /\ viewModel' = showProcessingModal
              /\ uiEvent' = "processFiles"
              /\ cycles' = cycles \cup {[id |-> CycleId, submitted |-> selectedFiles]}
              /\ IF isElectron
                   THEN /\ calls' = calls \cup
                                   {[ElectronDispatch(CycleId, kind, missing) EXCEPT
                                        !.args.confidence_threshold =
                                            options.confidence_threshold]}
                        /\ UNCHANGED webReqs
                   ELSE /\ webReqs' = webReqs \cup {WebDispatch(CycleId, kind)}
                        /\ UNCHANGED calls
    /\ UNCHANGED <<hostVars, ipcEvents, isElectron, loadingScreen, selectedFiles, appReady,
                   offlineMode, lastResults, downloadBtn, shownError, webCheck, lastProbe>>

\* processFiles with the sliders at their default values
DEFAULT_OPTIONS == [confidence_threshold |-> 50]
ProcessFiles(kind, missing) == ProcessFilesWith(kind, DEFAULT_OPTIONS, missing)

\* plain page: the fetch of a submission settles (it has no timeout)
WebSubmitOutcomes == {"ok", "not ok", "error"}
WebSubmitSettles(w, o) ==
    /\ w \in webReqs
    /\ w.stage = "http"
    /\ \E env \in Envelopes :
         webReqs' = (webReqs \ {w}) \cup
            {[w EXCEPT !.stage = "returned",
                       !.result = CASE o = "ok" -> Resolved(Success(env))
                                    [] o = "not ok" -> Rejected("Backend error (500): Internal Server Error")
                                    [] OTHER -> Rejected("Failed to fetch")]}
    /\ UNCHANGED <<hostVars, ipcVars, isElectron, viewModel, loadingScreen, selectedFiles, isProcessing, appReady,
                   offlineMode, lastResults, downloadBtn, shownError, webCheck, lastProbe,
                   cycles, uiEvent>>

\* the value or the error the await of processFiles invocation cy ends with
Settled(cy) ==
    {c.result : c \in {d \in calls : d.id = cy.id /\ d.stage = "returned"}} \cup
    {w.result : w \in {v \in webReqs : v.id = cy.id /\ v.stage = "returned"}}

\* faulty variant: an envelope that reports failed items is not taken as a success
SucceededWithoutFailedItems(r) ==
    /\ r.kind = "resolved"
    /\ Get(r.value, "success") = "true"
    /\ Get(r.value.data, "failed_images") = "0"

Succeeded(r) == r.kind = "resolved" /\ Get(r.value, "success") = "true"

\* the message of the error processFiles catches
FailureMessage(r) ==
    IF r.kind = "rejected" THEN r.error
    ELSE IF Truthy(Get(r.value, "error")) THEN r.value.error
    ELSE "Processing failed with unknown error"

\* faulty variant: the message is shown without the prefix
ProcessingFailedTextBare(r) == FailureMessage(r)

\* showError('Processing failed: ' + error.message)
ProcessingFailedText(r) == "Processing failed: " \o FailureMessage(r)

\* showDownloadButton: a button is added only when none is present
ShowDownloadButton(zipPath) == IF downloadBtn = "none" THEN zipPath ELSE downloadBtn

\* processFiles, after its await: the result is shown and stored, or the error is
\* shown; isProcessing is cleared in either case
CycleEnds(cy, r) ==
    /\ UiAlive
    /\ cy \in cycles
    /\ r \in Settled(cy)
    /\ ProgressDelivered
    /\ cycles' = cycles \ {cy}
    /\ calls' = {c \in calls : c.id # cy.id}
    /\ webReqs' = {w \in webReqs : w.id # cy.id}
    /\ IF Succeeded(r)
         THEN /\ lastResults' = r.value.data
              /\ downloadBtn' = IF Truthy(Get(r.value.data, "zip_file_path"))
                                  THEN ShowDownloadButton(r.value.data.zip_file_path)
                                  ELSE downloadBtn
              /\ UNCHANGED shownError
         ELSE /\ shownError' = ProcessingFailedText(r)
              /\ UNCHANGED <<lastResults, downloadBtn>>
    /\ isProcessing' = FALSE
    /\ uiEvent' = "processFiles ended"
    /\ UNCHANGED <<hostVars, ipcEvents, isElectron, viewModel, loadingScreen, selectedFiles, appReady, offlineMode,
                   webCheck, lastProbe>>

(***************************************************************************)
(* Specifications.                                                         *)
(***************************************************************************)
Init ==
    /\ hostPc = "launched"
    /\ backendProcessor = NoProcessor
    /\ probes = <<>>
    /\ caughtError = ""
    /\ ipcEvents = <<>>
    /\ calls = {}
    /\ isElectron \in BOOLEAN
    /\ selectedFiles = <<>>
    /\ isProcessing = FALSE
    /\ appReady = FALSE
    /\ offlineMode = FALSE
    /\ lastResults = NullResults
    /\ downloadBtn = "none"
    /\ shownError = ""
    /\ webCheck = IF isElectron THEN "idle" ELSE "pending"
    /\ lastProbe = "none"
    /\ cycles = {}
    /\ webReqs = {}
    /\ uiEvent = "initializeApp"
    /\ viewModel = NoProgress
    /\ loadingScreen = IF isElectron THEN InitializingElectron ELSE ConnectingToBackend
    /\ downloads = {}

\* the host process, with renderer code invoking its operations at any time; a download
\* is invoked without a file name here and with one in SpecDownloads
InitHost == Init /\ isElectron

HostLifecycle ==
    \/ WindowReady
    \/ \E o \in ProbeOutcomes : ProbeSettles(o)
    \/ \E o \in HttpOutcomes : ModelInfoSettles(o)
    \/ DialogRetry
    \/ DialogContinueOffline
    \/ DialogExit
    \/ RetryTimer
    \/ QuitApp

HostCalls ==
    \/ \E c \in calls : HandlerStart(c)
    \/ \E c \in calls, o \in HttpOutcomes : RequestSettles(c, o)
    \/ \E c \in calls, o \in StreamOutcomes : StreamSettles(c, o)

NextHost ==
    \/ HostLifecycle
    \/ \E c \in calls : HandlerStart(c)
    \/ \E c \in calls, o \in HttpOutcomes : RequestSettles(c, o)
    \/ \E op \in IpcOps : \E a \in OpArgs(op) : Invoke(op, a)
    \/ \E c \in calls : ReplyDropped(c)

SpecHost == InitHost /\ [][NextHost]_vars

\* the transport client, with its methods called directly
NextTransport ==
    \/ HostLifecycle
    \/ HostCalls
    \/ \E m \in Methods : \E a \in MethodArgs(m) : CallMethod(m, a)
    \/ \E c \in calls : ReplyDropped(c)

SpecTransport == InitHost /\ [][NextTransport]_vars

\* the whole application, hosted or as a plain page, with its user; the user has an
\* image and an archive to select
Selectable == {"a.jpg", "r.zip"}

\* the indices removeFile is called with: those of up to two entries, one below and
\* one above
RemoveIndices == -1 .. 2

UiActions ==
    \/ DeliverAppReady
    \/ \E o \in WebCheckOutcomes : WebCheckSettles(o)
    \/ ReconnectTimer
    \/ \E p \in Selectable : AddFiles(<<p>>)
    \/ \E p \in Selectable, q \in Selectable : AddFiles(<<p, q>>)
    \/ \E i \in RemoveIndices : RemoveFile(i)
    \/ ClearFiles
    \/ ClearResults
    \/ \E k \in {"yolo", "individual_elephants"}, m \in {{}, Names(selectedFiles)} :
          ProcessFiles(k, m)
    \/ \E w \in webReqs, o \in WebSubmitOutcomes : WebSubmitSettles(w, o)
    \/ \E cy \in cycles : \E r \in Settled(cy) : CycleEnds(cy, r)

\* closing the window ends both processes: a run is followed up to that point
Startup ==
    \/ WindowReady
    \/ \E o \in ProbeOutcomes : ProbeSettles(o)
    \/ \E o \in HttpOutcomes : ModelInfoSettles(o)
    \/ DialogRetry
    \/ DialogContinueOffline
    \/ DialogExit
    \/ RetryTimer

Submissions ==
    \/ \E c \in calls : HandlerStart(c)
    \/ \E c \in calls, o \in {"ok", "timeout"} : RequestSettles(c, o)

Next ==
    \/ Startup
    \/ Submissions
    \/ UiActions

Spec == Init /\ [][Next]_vars

\* the hosted application with the progress of its uploads: the backend answers the
\* startup, the user selects the image or the archive and submits it
NextProgress ==
    \/ WindowReady
    \/ \E o \in {"200", "error"} : ProbeSettles(o)
    \/ ModelInfoSettles("ok")
    \/ Submissions
    \/ \E c \in calls, n \in 1 .. UploadSize : UploadProgress(c, n)
    \/ DeliverAppReady
    \/ DeliverBatchProgress
    \/ \E p \in Selectable : AddFiles(<<p>>)
    \/ \E k \in {"yolo", "individual_elephants"} : ProcessFiles(k, {})
    \/ \E cy \in cycles : \E r \in Settled(cy) : CycleEnds(cy, r)

SpecProgress == InitHost /\ [][NextProgress]_vars

\* the hosted application with a user who selects up to three images that exist, sets
\* the confidence slider and asks for detection
Images == {"a.jpg", "b.jpg", "c.jpg"}
Confidences == {0, 25, 50, 100}

NextBatch ==
    \/ WindowReady
    \/ \E o \in {"200", "error"} : ProbeSettles(o)
    \/ ModelInfoSettles("ok")
    \/ DeliverAppReady
    \/ \E p \in Images : AddFiles(<<p>>)
    \/ \E c \in Confidences :
          ProcessFilesWith("yolo", [confidence_threshold |-> c], {})
    \/ Submissions
    \/ \E cy \in cycles : \E r \in Settled(cy) : CycleEnds(cy, r)

SpecBatch == InitHost /\ [][NextBatch]_vars

\* the application, hosted or as a plain page, with a backend that answers the startup
\* and a user who submits the image or the archive with any processing type: the four
\* values of the radio buttons, other spellings the transport client knows, and one
\* that nothing knows
PROCESSING_TYPES == {"yolo", "siamese", "combined", "individual_elephants"}
Kinds == PROCESSING_TYPES \cup {"yolo-only", "compare-dataset", "individual-elephants", "bogus"}

NextKinds ==
    \/ WindowReady
    \/ \E o \in {"200", "error"} : ProbeSettles(o)
    \/ ModelInfoSettles("ok")
    \/ DeliverAppReady
    \/ WebCheckSettles("ok")
    \/ \E p \in Selectable : AddFiles(<<p>>)
    \/ \E k \in Kinds : ProcessFiles(k, {})
    \/ Submissions
    \/ \E w \in webReqs, o \in WebSubmitOutcomes : WebSubmitSettles(w, o)
    \/ \E cy \in cycles : \E r \in Settled(cy) : CycleEnds(cy, r)

SpecKinds == Init /\ [][NextKinds]_vars

\* the application, hosted or as a plain page, after a startup that finds the backend:
\* the user selects, removes and clears files, submits them for detection and clears
\* the results, at any time
NextSession ==
    \/ WindowReady
    \/ ProbeSettles("200")
    \/ ModelInfoSettles("ok")
    \/ DeliverAppReady
    \/ WebCheckSettles("ok")
    \/ \E p \in Selectable : AddFiles(<<p>>)
    \/ \E p \in Selectable, q \in Selectable : AddFiles(<<p, q>>)
    \/ \E i \in RemoveIndices : RemoveFile(i)
    \/ ClearFiles
    \/ ClearResults
    \/ ProcessFiles("yolo", {})
    \/ Submissions
    \/ \E w \in webReqs, o \in WebSubmitOutcomes : WebSubmitSettles(w, o)
    \/ \E cy \in cycles : \E r \in Settled(cy) : CycleEnds(cy, r)

SpecSession == Init /\ [][NextSession]_vars

\* the whole application with what its scheduling guarantees: the host runs a handler
\* it was sent, the timeout axios was given fires when no answer settles the request
\* first, and processFiles resumes once its await has settled. Nothing makes the
\* backend answer, and a fetch has no timeout of its own.
NextLive ==
    \/ Startup
    \/ DeliverAppReady
    \/ \E o \in WebCheckOutcomes : WebCheckSettles(o)
    \/ ReconnectTimer
    \/ \E p \in Selectable : AddFiles(<<p>>)
    \/ ProcessFiles("yolo", {})
    \/ Submissions
    \/ \E w \in webReqs, o \in WebSubmitOutcomes : WebSubmitSettles(w, o)
    \/ \E cy \in cycles : \E r \in Settled(cy) : CycleEnds(cy, r)

Fairness ==
    /\ WF_vars(\E c \in calls : HandlerStart(c))
    /\ WF_vars(\E c \in calls : RequestSettles(c, "timeout"))
    /\ WF_vars(\E cy \in cycles : \E r \in Settled(cy) : CycleEnds(cy, r))

SpecLive == Init /\ [][NextLive]_vars /\ Fairness

\* the host with downloads into a Downloads directory that holds any of the names a
\* download of result.zip can end with
InitDownloads ==
    /\ hostPc = "launched"
    /\ backendProcessor = NoProcessor
    /\ probes = <<>>
    /\ caughtError = ""
    /\ ipcEvents = <<>>
    /\ calls = {}
    /\ isElectron = TRUE
    /\ selectedFiles = <<>>
    /\ isProcessing = FALSE
    /\ appReady = FALSE
    /\ offlineMode = FALSE
    /\ lastResults = NullResults
    /\ downloadBtn = "none"
    /\ shownError = ""
    /\ webCheck = "idle"
    /\ lastProbe = "none"
    /\ cycles = {}
    /\ webReqs = {}
    /\ uiEvent = "initializeApp"
    /\ viewModel = NoProgress
    /\ loadingScreen = InitializingElectron
    /\ downloads \in SUBSET Candidates(ResultZip)

NextDownloads ==
    \/ HostLifecycle
    \/ Invoke("download-file-to-downloads", DownloadArgs)
    \/ Invoke("download-file-to-downloads", NoArgs)
    \/ \E c \in calls : HandlerStart(c)
    \/ \E c \in calls, o \in HttpOutcomes : RequestSettles(c, o)
    \/ \E c \in calls : WriterOpens(c)
    \/ \E c \in calls, o \in StreamOutcomes : StreamSettles(c, o)
    \/ \E c \in calls : ReplyDropped(c)

SpecDownloads == InitDownloads /\ [][NextDownloads]_vars

\* the host after a startup that finds the backend, with downloads of two packages
\* under the same file name in progress together
NextRace ==
    \/ WindowReady
    \/ ProbeSettles("200")
    \/ ModelInfoSettles("ok")
    \/ \E z \in Packages : InvokeDownload(z)
    \/ \E c \in calls : HandlerStart(c)
    \/ \E c \in calls, o \in {"ok", "timeout"} : RequestSettles(c, o)
    \/ \E c \in calls : WriterOpens(c)
    \/ \E c \in calls, o \in StreamOutcomes : StreamSettles(c, o)
    \/ \E c \in calls : ReplyDropped(c)

SpecRace == InitDownloads /\ [][NextRace]_vars

\* the host with a backend that answers the health request with any of the health
\* responses, or not in time; the capabilities are asked for through the host operation
\* and from the transport client directly
NextCapabilities ==
    \/ HostLifecycle
    \/ Invoke("get-processing-capabilities", NoArgs)
    \/ CallMethod("getProcessingCapabilities", NoArgs)
    \/ \E c \in calls : HandlerStart(c)
    \/ \E c \in calls, h \in HealthResponses : HealthSettles(c, h)
    \/ \E c \in calls : RequestSettles(c, "timeout")
    \/ \E c \in calls : ReplyDropped(c)

SpecCapabilities == InitHost /\ [][NextCapabilities]_vars

(***************************************************************************)
(* Properties.                                                             *)
(***************************************************************************)
\* the submissions of processFiles that exist: sent through the bridge or posted
SubmissionIds ==
    {c.id : c \in {d \in calls : d.origin = "processFiles"}} \cup {w.id : w \in webReqs}

\* C1: processFiles enters Processing (isProcessing set, a cycle begun, a submission
\* dispatched) only from a state where files are pending, no cycle is active, and the
\* app is ready and not offline; a process request made in any other state changes
\* nothing but the record that it was ignored, and a cycle that begins sets
\* isProcessing and dispatches its submission.
C1_ProcessingEnteredOnlyWhenAllowed ==
    [][ /\ ((isProcessing' /\ ~isProcessing) \/ cycles' \ cycles # {}
              \/ SubmissionIds' \ SubmissionIds # {})
           => (Len(selectedFiles) > 0 /\ ~isProcessing /\ appReady /\ ~offlineMode)
        /\ (cycles' \ cycles # {})
           => (isProcessing' /\ \A cy \in cycles' \ cycles : cy.id \in SubmissionIds')
        /\ (uiEvent' = "processFiles ignored" /\ uiEvent # "processFiles ignored")
           => (/\ ~(Len(selectedFiles) > 0 /\ ~isProcessing /\ appReady /\ ~offlineMode)
               /\ UNCHANGED <<hostVars, ipcVars, isElectron, viewModel, loadingScreen, selectedFiles, isProcessing,
                              appReady, offlineMode, lastResults, downloadBtn, shownError,
                              webCheck, lastProbe, cycles, webReqs>>)
      ]_vars

\* a process request was ignored because no file is pending, the app being ready
C1_Witness ==
    /\ uiEvent = "processFiles ignored"
    /\ Len(selectedFiles) = 0
    /\ appReady /\ ~offlineMode /\ ~isProcessing

\* C2: at most one submission of the UI is in flight at any time, isProcessing is set
\* exactly while a cycle is active, and no submission exists when no cycle is active
\* (a request ignored during a cycle is not dispatched later).
C2_AtMostOneSubmissionInFlight ==
    /\ Cardinality(cycles) <= 1
    /\ Cardinality(SubmissionIds) <= 1
    /\ SubmissionIds = {cy.id : cy \in cycles}
    /\ isProcessing <=> cycles # {}

\* a process request was ignored while a submission was waiting for the backend
C2_Witness ==
    /\ isProcessing
    /\ uiEvent = "processFiles ignored"
    /\ \/ \E c \in calls : c.origin = "processFiles" /\ c.stage = "http"
       \/ \E w \in webReqs : w.stage = "http"

\* C3: once the UI has learnt that the connection resolution failed (the plain page's
\* health fetch failed, or the host announced offline mode with app-ready), the UI is
\* Offline (appReady false, offlineMode true) and no Processing cycle is active.
C3_FailedResolutionLeavesUiOffline ==
    lastProbe = "failed" => (~appReady /\ offlineMode /\ ~isProcessing)

\* C4 (as stated): the first candidate that answers the health probe with a success
\* status (200 or another 2xx) ends the probing and becomes the base url.
C4_FirstSuccessStatusWins ==
    \A i \in 1 .. Len(probes) :
        probes[i].outcome \in {"200", "2xx"} =>
            (i = Len(probes) /\ backendProcessor.baseUrl = probes[i].url)

\* C4: initialize probes the remote url first and the local url second, one probe at a
\* time; a probe follows only a probe that was not answered with status 200; the first
\* candidate answering with status 200 becomes the base url and ends the probing, and
\* until then the connection state is unresolved.
C4_ProbesInOrderFirst200Wins ==
    /\ Len(probes) <= 2
    /\ Len(probes) >= 1 => probes[1].url = RENDER_URL
    /\ Len(probes) = 2 => (probes[2].url = LOCAL_URL /\ probes[1].outcome # "200")
    /\ hostPc = "modelInfo" =>
          /\ probes # <<>>
          /\ probes[Len(probes)].outcome = "200"
          /\ backendProcessor.baseUrl = probes[Len(probes)].url
          /\ backendProcessor.isInitialized
    /\ hostPc = "probing" =>
          /\ \A i \in 1 .. Len(probes) : probes[i].outcome # "200"
          /\ backendProcessor.baseUrl = Null
          /\ ~backendProcessor.isInitialized

\* the remote candidate failed and the local one answered 200: it is the base url
C4_Witness ==
    /\ hostPc = "modelInfo"
    /\ Len(probes) = 2
    /\ probes[1].outcome = "error"
    /\ backendProcessor.baseUrl = LOCAL_URL

\* C5: when every candidate was probed and none answered with status 200, initialize
\* has thrown the no-backend error, the connection state is unresolved (baseUrl null,
\* isInitialized false), and the dialog offering retry / continue offline is shown.
C5_NoCandidateLeavesUnresolved ==
    (Len(probes) = 2 /\ \A i \in 1 .. 2 : probes[i].outcome # "200") =>
        /\ hostPc = "dialog"
        /\ caughtError = "Could not connect to any backend server"
        /\ backendProcessor.defined
        /\ backendProcessor.baseUrl = Null
        /\ ~backendProcessor.isInitialized

\* both candidates failed and the dialog is shown
C5_Witness ==
    /\ hostPc = "dialog"
    /\ Len(probes) = 2
    /\ probes[1].outcome = "error" /\ probes[2].outcome = "error"
    /\ ~backendProcessor.isInitialized

\* C6 (as stated): the base url and the initialized flag change only in a resolve:
\* when checkBackendStatus creates the processor, or when a probe succeeds.
C6_OnlyResolveMutatesConnection ==
    [][ backendProcessor' # backendProcessor =>
          (hostPc' = "probing" \/ (hostPc = "probing" /\ hostPc' = "modelInfo")) ]_vars

\* C6: the base url and the initialized flag change only when checkBackendStatus
\* creates a new processor (start-up or retry), when a probe of initialize succeeds,
\* and when cleanup runs at shutdown; every request a transport call issues is made
\* against the base url held at that moment.
C6_ConnectionChangesAtResolveOrShutdown ==
    [][ /\ backendProcessor' # backendProcessor =>
            \/ /\ hostPc \in {"launched", "retryWait"}
               /\ hostPc' = "probing"
               /\ backendProcessor' = [defined |-> TRUE, baseUrl |-> Null,
                                       isInitialized |-> FALSE]
            \/ /\ hostPc = "probing"
               /\ hostPc' = "modelInfo"
               /\ backendProcessor'.isInitialized
               /\ backendProcessor'.baseUrl \in {RENDER_URL, LOCAL_URL}
            \/ /\ hostPc' = "quit"
               /\ backendProcessor'.baseUrl = Null
               /\ ~backendProcessor'.isInitialized
        /\ \A c \in calls' \ calls :
              c.stage = "http" => c.req.base = backendProcessor.baseUrl
      ]_vars

\* after the resolve chose the local url, a transport call uses it
C6_Witness ==
    /\ hostPc = "ready"
    /\ backendProcessor.baseUrl = LOCAL_URL
    /\ \E c \in calls : c.stage = "http" /\ c.req.base = LOCAL_URL

\* C7: a host operation invoked while no backend connection exists issues no HTTP
\* request and resolves with the backend-not-connected error.
C7_NotConnectedIsRefused ==
    \A c \in calls :
        (c.op \in IpcOps /\ c.connected = "no") =>
            /\ ~c.req.issued
            /\ c.stage = "returned"
            /\ c.result.kind = "resolved"
            /\ Get(c.result.value, "success") = "false"
            /\ Get(c.result.value, "error") \in
                  {"Backend not connected. Please restart the app.", "Backend not connected"}

\* C8: no invocation of a host operation rejects.
C8_InvocationsNeverReject ==
    \A c \in calls : c.op \in IpcOps => c.result.kind # "rejected"

NetworkFailures == {"refused", "timeout", "non2xx"}

ReceivedMessage(r) ==
    IF r.kind = "rejected" THEN r.error ELSE Get(r.value, "error")

FailedResult(r) == ~(r.kind = "resolved" /\ Get(r.value, "success") = "true")

\* C10 (as stated): when a cycle ends in failure, isProcessing is false, the pending
\* files are exactly those submitted and there are some, and the message shown is the
\* message received.
C10_FailureRestoresSubmittedFiles ==
    [][ \A cy \in cycles \ cycles' : \A r \in Settled(cy) :
          FailedResult(r) =>
              /\ ~isProcessing'
              /\ selectedFiles' = cy.submitted
              /\ selectedFiles' # <<>>
              /\ shownError' = ReceivedMessage(r) ]_vars

\* C10: when a cycle ends in failure, isProcessing is false, the pending files, the
\* last results and the download button are what they were just before (the failure
\* handling touches none of them), and the message shown is "Processing failed: "
\* followed by the message received.
C10_FailureKeepsFilesAndShowsPrefixedError ==
    [][ \A cy \in cycles \ cycles' : \A r \in Settled(cy) :
          FailedResult(r) =>
              /\ ~isProcessing'
              /\ selectedFiles' = selectedFiles
              /\ lastResults' = lastResults
              /\ downloadBtn' = downloadBtn
              /\ shownError' = "Processing failed: " \o ReceivedMessage(r) ]_vars

\* a cycle ended in failure after the user had cleared the pending files
C10_Witness ==
    /\ uiEvent = "processFiles ended"
    /\ ~isProcessing
    /\ cycles = {}
    /\ selectedFiles = <<>>
    /\ lastResults = NullResults
    /\ shownError = "Processing failed: timeout exceeded"

\* C11: when a cycle ends with a success value, isProcessing is false, lastResults is
\* the envelope returned, no error is shown, and the download button is present when
\* the envelope carries an artifact path; an envelope that reports failed items is
\* handled the same way.
C11_SuccessEndsInResultsAvailable ==
    [][ \A cy \in cycles \ cycles' : \A r \in Settled(cy) :
          (r.kind = "resolved" /\ Get(r.value, "success") = "true") =>
              /\ ~isProcessing'
              /\ lastResults' = r.value.data
              /\ shownError' = shownError
              /\ selectedFiles' = selectedFiles
              /\ Truthy(Get(r.value.data, "zip_file_path")) => downloadBtn' # "none"
              /\ ~Truthy(Get(r.value.data, "zip_file_path")) => downloadBtn' = downloadBtn
      ]_vars

\* a cycle ended with an envelope that reports a failed item and carries an artifact
C11_Witness ==
    /\ uiEvent = "processFiles ended"
    /\ ~isProcessing
    /\ lastResults = [zip_file_path |-> "out2.zip", failed_images |-> "1"]
    /\ downloadBtn = "out2.zip"
    /\ shownError = ""

\* the input a submission of the pending files sel is to carry: the first archive alone
\* when there is one, otherwise all the images
ArchiveNames(sel) == {sel[i].name : i \in {j \in 1 .. Len(sel) : sel[j].type = "zip"}}
ImageNames(sel) == {sel[i].name : i \in {j \in 1 .. Len(sel) : sel[j].type = "image"}}
InputToSend(sel) ==
    [zip |-> ArchiveNames(sel) # {},
     images |-> IF ArchiveNames(sel) # {} THEN 0 ELSE Cardinality(ImageNames(sel))]

\* C12: the submission of every cycle, hosted or plain page, carries the same input for
\* the same pending files: the first archive and no image when an archive is pending,
\* otherwise every pending image and no archive.
C12_BothPathsSendTheSameInput ==
    \A cy \in cycles :
        /\ \A c \in calls : c.id = cy.id =>
              /\ [zip |-> Truthy(c.args.zip), images |-> Len(c.args.files)]
                    = InputToSend(cy.submitted)
              /\ c.op = IF ArchiveNames(cy.submitted) # {} THEN "process-zip"
                        ELSE "process-batch"
              /\ Truthy(c.args.zip) => c.args.zip \in ArchiveNames(cy.submitted)
              /\ \A i \in 1 .. Len(c.args.files) : c.args.files[i] \in ImageNames(cy.submitted)
        /\ \A w \in webReqs : w.id = cy.id =>
              [zip |-> w.zip, images |-> w.images] = InputToSend(cy.submitted)

\* hosted: an archive and an image were pending, and the archive alone was sent
C12_Witness ==
    \E cy \in cycles :
        /\ ArchiveNames(cy.submitted) # {} /\ ImageNames(cy.submitted) # {}
        /\ \E c \in calls :
              c.id = cy.id /\ c.op = "process-zip" /\ c.args.files = <<>> /\ c.stage = "http"

\* C13: the percent values of the progress events sent for one submission, in the order
\* they are sent, never decrease and lie within 0..100
C13_ProgressPercentNonDecreasing ==
    \A c \in calls : \A i \in DOMAIN c.reported : \A j \in DOMAIN c.reported :
        /\ c.reported[i] \in 0 .. 100
        /\ i <= j => c.reported[i] <= c.reported[j]

\* a submission of the user has sent three progress events, the last one at 100 percent
C13_Witness ==
    \E c \in calls : /\ c.origin = "processFiles"
                      /\ Len(c.reported) = UploadSize
                      /\ c.reported[1] < c.reported[UploadSize]
                      /\ c.reported[UploadSize] = 100

\* C14: when the loop of a download ends, the name it ends with is not in the Downloads
\* directory; it is the requested name when that is free, and otherwise name_<n>.ext for
\* the smallest n >= 1 that is free
C14_DownloadPicksFirstFreeName ==
    [][ \A c \in calls \ calls' : \A d \in calls' \ calls :
          (c.method = "downloadFileToDownloads" /\ c.stage = "http" /\ d.stage = "open"
             /\ d = [c EXCEPT !.stage = "open", !.dest = d.dest]) =>
            LET f == c.args.filename IN
            /\ d.dest \notin downloads
            /\ Candidate(f, 0) \notin downloads => d.dest = Candidate(f, 0)
            /\ Candidate(f, 0) \in downloads =>
                  \E n \in 1 .. (MaxCopies + 1) :
                      /\ d.dest = Candidate(f, n)
                      /\ \A m \in 1 .. (n - 1) : Candidate(f, m) \in downloads ]_vars

\* with result.zip and result_1.zip in the directory, a download of result.zip has ended
\* its loop with result_2.zip
C14_Witness ==
    /\ downloads = {"result.zip", "result_1.zip"}
    /\ \E c \in calls : c.stage = "open" /\ c.dest = "result_2.zip"

\* C15: clearFiles leaves the pending-file set empty and isProcessing, appReady,
\* offlineMode and lastResults as they were; applied to an empty set it therefore changes
\* none of them, and applying it again changes nothing more
C15_ClearFilesOnEmptyChangesNothing ==
    [][ ClearFiles =>
          /\ selectedFiles' = <<>>
          /\ UNCHANGED <<isProcessing, appReady, offlineMode, lastResults>>
          /\ selectedFiles = <<>> =>
                UNCHANGED <<selectedFiles, isProcessing, appReady, offlineMode, lastResults,
                            downloadBtn, shownError, cycles, calls, webReqs>> ]_vars

\* clearFiles has run and the set is empty, with results of an earlier cycle at hand:
\* the state clearFiles is applied to again
C15_Witness ==
    /\ uiEvent = "clearFiles"
    /\ selectedFiles = <<>>
    /\ lastResults # NullResults
    /\ appReady /\ ~isProcessing

\* C16: a hosted detection batch of n existing images with confidence threshold c makes
\* one request, to the batch-detection route, with n image attachments and
\* confidence_threshold = c
C16_BatchRequestCarriesThreshold ==
    \A cy \in cycles :
        LET made == {c \in calls : c.id = cy.id /\ c.req.issued} IN
        /\ Cardinality(made) <= 1
        /\ \A c \in made :
              (c.op = "process-batch" /\ c.args.kind = "yolo") =>
                  /\ c.req.route = "/api/batch-yolo"
                  /\ c.req.images = Len(cy.submitted)
                  /\ ~c.req.zip
                  /\ c.req.confidence_threshold = c.args.confidence_threshold

\* C17: once Processing is entered, isProcessing eventually becomes false, in hosted
\* and in plain-page mode, whether or not the backend answers
C17_ProcessingEventuallyEnds == isProcessing ~> ~isProcessing

OfflineAnnouncement ==
    [channel |-> "app-ready", data |-> [modelsAvailable |-> "false", offlineMode |-> "true"]]

C19_StartupProtocol ==
    [][ /\ (Len(ipcEvents') > Len(ipcEvents)
               /\ ipcEvents'[Len(ipcEvents')].channel = "app-ready"
               /\ ipcEvents'[Len(ipcEvents')].data.modelsAvailable = "true") =>
              /\ hostPc = "modelInfo" /\ hostPc' = "ready"
              /\ backendProcessor.isInitialized
              /\ backendProcessor.baseUrl \in {RENDER_URL, LOCAL_URL}
        /\ (hostPc = "dialog" /\ hostPc' # "dialog") =>
              \/ hostPc' = "retryWait" /\ ipcEvents' = ipcEvents
              \/ hostPc' = "offline" /\ ipcEvents' = Append(ipcEvents, OfflineAnnouncement)
              \/ hostPc' = "quit" /\ ipcEvents' = <<>>
        /\ (hostPc = "retryWait" /\ hostPc' # "retryWait") =>
              \/ /\ hostPc' = "probing"
                 /\ backendProcessor' = NewBackendProcessor
                 /\ probes' = <<>> /\ ipcEvents' = ipcEvents
              \/ hostPc' = "quit" /\ ipcEvents' = <<>>
        /\ hostPc = "offline" =>
              \/ /\ hostPc' = "offline"
                 /\ probes' = probes /\ backendProcessor' = backendProcessor
                 /\ ipcEvents' = ipcEvents
              \/ hostPc' = "quit" /\ ipcEvents' = <<>>
        /\ hostPc = "quit" => hostPc' = "quit" /\ ipcEvents' = <<>>
      ]_vars

\* a startup attempt failed after its resolve had succeeded, the user chose to continue
\* offline, and the offline announcement is the only app-ready event sent
C19_Witness ==
    /\ hostPc = "offline"
    /\ ipcEvents = <<OfflineAnnouncement>>
    /\ backendProcessor.isInitialized
    /\ probes = <<>>

\* C20: in hosted mode the delivery of a batch-progress event sets the progress view to
\* the percent, the stage, the current-file label and the counts of the event
C20_ProgressEventUpdatesViewModel ==
    [][ (/\ UiAlive
         /\ ipcEvents # <<>>
         /\ Head(ipcEvents).channel = "batch-progress"
         /\ ipcEvents' = Tail(ipcEvents)) =>
            LET sent == Head(ipcEvents).data IN
            /\ viewModel'.progress = sent.progress
            /\ viewModel'.stage = sent.stage
            /\ viewModel'.currentFile = sent.currentFile
            /\ viewModel'.processedCount = sent.current
            /\ viewModel'.totalCount = sent.total ]_vars

\* the four batch routes of the backend
BatchRoutes == {"/api/batch-yolo", "/api/batch-siamese", "/api/batch-combined",
                "/api/batch-individual-elephants"}

\* C21: every batch request the transport client has sent carries exactly one non-empty
\* payload kind: at least one image attachment or the archive attachment, never neither
\* and never both (so a submission whose local files are all missing is not sent).
C21_BatchRequestHasOnePayloadKind ==
    \A c \in calls :
        (c.req.issued /\ c.req.route \in BatchRoutes)
            => ((c.req.images > 0) # c.req.zip)

\* the submissions of processFiles the host has taken up while connected
HostedSubmissions ==
    {c \in calls : c.origin = "processFiles" /\ c.stage # "sent" /\ c.connected = "yes"}

\* a submission that ended with the unknown-processing-type error without a request
RejectedAsUnknown(c) ==
    /\ ~c.req.issued
    /\ c.stage = "returned"
    /\ c.result = Resolved(Failure(UnknownType(c.args.kind)))

NoDuplicateNames(sel) ==
    \A i, j \in 1 .. Len(sel) : sel[i].name = sel[j].name => i = j

\* C23: after any sequence of selections, drops, removals and clears no two entries of
\* the pending-file set have the same display name; addFiles adds exactly the names
\* not yet present, once each, so adding names already present (also the same name
\* twice in one call) leaves the set unchanged; removeFile with an index out of range
\* changes nothing.
C23_PendingFilesHaveDistinctNames ==
    [][ /\ NoDuplicateNames(selectedFiles')
        /\ \A p, q \in Selectable :
              (appReady /\ AddFiles(<<p, q>>)) =>
                  /\ Names(selectedFiles') = Names(selectedFiles) \cup {p, q}
                  /\ {p, q} \subseteq Names(selectedFiles) => UNCHANGED selectedFiles
        /\ \A i \in RemoveIndices :
              (RemoveFile(i) /\ (i < 0 \/ i >= Len(selectedFiles))) =>
                  UNCHANGED selectedFiles ]_vars

\* both files are pending: every further addFiles names a file already present, and
\* index 2 is out of range
C23_Witness ==
    /\ appReady
    /\ Names(selectedFiles) = Selectable
    /\ Len(selectedFiles) = 2

\* the submissions of processFiles whose request has not settled
InFlight ==
    {c.id : c \in {d \in calls : d.origin = "processFiles" /\ d.stage \in {"sent", "http"}}}
        \cup {w.id : w \in {v \in webReqs : v.stage = "http"}}

\* C24: clearing the files or the results while a submission is in flight never
\* retracts it: the request stays as it is, isProcessing stays true (it is cleared only
\* by the step of processFiles that follows the settled submission), clearFiles leaves
\* lastResults unchanged and clearResults leaves the pending-file set unchanged.
C24_ClearsNeverRetractSubmission ==
    [][ /\ ((ClearFiles \/ ClearResults) /\ isProcessing) =>
              /\ UNCHANGED <<calls, webReqs, cycles, isProcessing>>
              /\ InFlight' = InFlight
        /\ ClearFiles => UNCHANGED lastResults
        /\ ClearResults => UNCHANGED selectedFiles
        /\ (isProcessing /\ ~isProcessing') =>
              \E cy \in cycles : Settled(cy) # {} /\ cy \notin cycles' ]_vars

\* the files were cleared while the submission made from them is still in flight
C24_Witness ==
    /\ isProcessing
    /\ InFlight # {}
    /\ uiEvent = "clearFiles"
    /\ selectedFiles = <<>>

\* the requests the transport client has issued, each with the method that issued it
IssuedRequests == {[method |-> c.method, req |-> c.req] : c \in {d \in calls : d.req.issued}}

ControlRoutes == {HEALTH, "/api/detect-yolo", "/api/compare-dataset"}
PackageRoute == "/api/prepare-download-package"
DownloadRoutes == {"/api/download-prepared-package", "/api/download-batch/:filename"}

\* C25 (as stated): every call uses the multiplier of its payload class: 1 for health
\* and control calls, 10 for batch submissions, 20 for archive submissions and for
\* package assembly, 5 for downloads.
C25_MultiplierByPayloadClass ==
    \A r \in IssuedRequests :
        r.req.mult =
            CASE r.req.route \in ControlRoutes -> 1
              [] r.req.route \in BatchRoutes -> IF r.req.zip THEN 20 ELSE 10
              [] r.req.route = PackageRoute -> 20
              [] r.req.route \in DownloadRoutes -> 5

\* C25 (amended): every call uses a fixed multiplier: 1 for the health call and a
\* single-image submission, 10 for an image batch posted by processBatch, 20 for an
\* archive and for everything processIndividualElephants posts, 15 for package
\* assembly, 10 for the download of a prepared package and 5 for the download of
\* batch results.
C25_MultiplierByMethod ==
    \A r \in IssuedRequests :
        r.req.mult =
            CASE r.req.route \in ControlRoutes -> 1
              [] r.req.route \in BatchRoutes ->
                     IF r.req.zip \/ r.method \in {"processIndividualElephants",
                                                    "processBatchZipIndividualElephants"}
                       THEN 20 ELSE 10
              [] r.req.route = PackageRoute -> 15
              [] r.req.route = "/api/download-prepared-package" -> 10
              [] r.req.route = "/api/download-batch/:filename" -> 5

\* a package-assembly request is under way, with its multiplier of 15
C25_Witness ==
    \E c \in calls :
        /\ c.stage = "http"
        /\ c.req.issued
        /\ c.req.route = PackageRoute
        /\ c.req.mult = 15

\* C26: whenever the download button is present, the artifact its click handler
\* downloads is the artifact of the current last result; after two successful runs
\* with different artifacts and no clear in between it is the second run's.
C26_DownloadButtonFollowsLastResult ==
    downloadBtn # "none" => downloadBtn = Get(lastResults, "zip_file_path")

\* C27: whenever the host has announced offline mode with app-ready, its backend
\* connection is not initialized (which is what makes the handlers refuse every
\* processing operation invoked afterwards): the host never reports offline while it
\* holds a resolved backend.
C27_OfflineHostHoldsNoBackend ==
    hostPc = "offline" => ~backendProcessor.isInitialized

\* the downloads that have selected their destination
Selected == {c \in calls : c.method = "downloadFileToDownloads" /\ c.dest # ""}

\* C28: two download-file-to-downloads invocations that are in flight at the same time
\* with the same requested file name never select the same destination path.
C28_ConcurrentDownloadsSelectDistinctPaths ==
    \A c, d \in Selected :
        (c # d /\ c.args.filename = d.args.filename) => c.dest # d.dest

\* both models are loaded according to a health response
BothLoaded(baseInfo) ==
    Truthy(Loaded(baseInfo, "yolo")) /\ Truthy(Loaded(baseInfo, "siamese"))

\* C29: for every health response, the identity-grouping capability is reported as
\* available exactly when both the detection and the comparison model are loaded, by
\* BackendProcessor.getProcessingCapabilities and by the host's
\* get-processing-capabilities operation alike.
C29_IdentityGroupingIffBothModels ==
    [][ \A c \in calls, h \in HealthResponses :
          (c.op \in {"get-processing-capabilities", Direct} /\ HealthSettles(c, h)) =>
              \A d \in calls' \ calls :
                  Truthy(d.result.value.individual_identification) <=> BothLoaded(h) ]_vars

\* C30: in prepare-download-package and prepare-individual-elephant-download the final
\* download-progress event (progress 100, package ready) is sent only when package
\* assembly succeeded: an invocation that returned {success: false} has sent no
\* progress-100 event.
C30_ReadyEventOnlyOnSuccess ==
    \A c \in calls :
        (c.op \in PackageOps /\ c.stage = "returned"
            /\ Get(c.result.value, "success") = "false")
        => \A i \in DOMAIN c.reported : c.reported[i] # 100
====
